---- MODULE Spec2Model ----
(***************************************************************************)
(* A model of src/index.ts: the line-oriented tokenizer adapter            *)
(* (tokenize), the markup renderer (styleAttributeForToken,                *)
(* tokenizedFileToHTML) and the top-level highlight operation.             *)
(*                                                                         *)
(* A JavaScript string is modelled as a sequence of one-character strings, *)
(* so that split, substring, join, startsWith and the template literals    *)
(* are computed character by character.  The grammar engine                *)
(* (vscode-textmate), the grammar table (tm-grammars) and the checksum     *)
(* (crc/crc8) are libraries the file imports: the engine's answers are     *)
(* inputs of the steps that call it, the grammar table is a small          *)
(* instance, and the checksum is computed as CRC-8 (polynomial 0x07).      *)
(***************************************************************************)
EXTENDS Integers, Sequences, FiniteSets, TLC

(***************************************************************************)
(* Bounds of the model.                                                    *)
(***************************************************************************)
\* longest input text drawn from the alphabet
MaxLen == 3

\* number of highlight / tokenize runs in one behaviour
MaxRuns == 2

(***************************************************************************)
(* Strings.                                                                *)
(***************************************************************************)
Alphabet == {"a", "\n", "\r"}

RECURSIVE StringsOfLen(_)
StringsOfLen(n) ==
  IF n = 0 THEN {<<>>}
  ELSE {<<c>> \o s : c \in Alphabet, s \in StringsOfLen(n - 1)}

\* texts longer than MaxLen that the model also feeds in: markup in the
\* text, and the text that ends with a newline
ExtraCodes ==
  { <<"<", "b", "r", ">">>,
    <<"a", "\n", "b", "\n">> }

Codes == UNION {StringsOfLen(n) : n \in 0..MaxLen} \cup ExtraCodes

\* the UTF-8 byte of each character the model uses (all are ASCII)
CharCode(c) ==
  CASE c = "a" -> 97
    [] c = "b" -> 98
    [] c = "r" -> 114
    [] c = "<" -> 60
    [] c = ">" -> 62
    [] c = "\n" -> 10
    [] c = "\r" -> 13

RECURSIVE Concat(_)
\* the concatenation of a sequence of strings
Concat(ss) == IF ss = <<>> THEN <<>> ELSE Head(ss) \o Concat(Tail(ss))

Min(a, b) == IF a < b THEN a ELSE b
Max(a, b) == IF a > b THEN a ELSE b

\* String.prototype.startsWith
StartsWith(s, prefix) ==
  /\ Len(s) >= Len(prefix)
  /\ SubSeq(s, 1, Len(prefix)) = prefix

\* a substring that stops one character early
SubstringShort(s, start, end) ==
  LET a == Min(Max(start, 0), Len(s))
      b == Min(Max(end - 1, 0), Len(s))
  IN SubSeq(s, Min(a, b) + 1, Max(a, b))

\* String.prototype.substring: both indices are clamped to 0..length and
\* swapped when start > end; the result is the characters start..end-1
\* (0-based)
Substring(s, start, end) ==
  LET a == Min(Max(start, 0), Len(s))
      b == Min(Max(end, 0), Len(s))
  IN SubSeq(s, Min(a, b) + 1, Max(a, b))

RECURSIVE SplitDropLast(_)
\* a split that loses the empty segment after a final newline
SplitDropLast(code) ==
  IF code = <<>> THEN <<>>
  ELSE LET firstNl == IF \E k \in 1..Len(code) : code[k] = "\n"
                      THEN CHOOSE k \in 1..Len(code) :
                             /\ code[k] = "\n"
                             /\ \A j \in 1..(k - 1) : code[j] # "\n"
                      ELSE 0
       IN IF firstNl = 0 THEN <<code>>
          ELSE <<SubSeq(code, 1, firstNl - 1)>>
               \o SplitDropLast(SubSeq(code, firstNl + 1, Len(code)))

RECURSIVE SplitAlsoOnCR(_)
\* a split that takes a carriage return for a separator too
SplitAlsoOnCR(code) ==
  LET firstNl == IF \E k \in 1..Len(code) : code[k] \in {"\n", "\r"}
                 THEN CHOOSE k \in 1..Len(code) :
                        /\ code[k] \in {"\n", "\r"}
                        /\ \A j \in 1..(k - 1) : code[j] \notin {"\n", "\r"}
                 ELSE 0
  IN IF firstNl = 0 THEN <<code>>
     ELSE <<SubSeq(code, 1, firstNl - 1)>>
          \o SplitAlsoOnCR(SubSeq(code, firstNl + 1, Len(code)))

RECURSIVE Split(_)
\* code.split("\n"): the segments between newlines, empty ones kept; the
\* text after the last newline is a segment even when it is empty
Split(code) ==
  LET firstNl == IF \E k \in 1..Len(code) : code[k] = "\n"
                 THEN CHOOSE k \in 1..Len(code) :
                        /\ code[k] = "\n"
                        /\ \A j \in 1..(k - 1) : code[j] # "\n"
                 ELSE 0
  IN IF firstNl = 0 THEN <<code>>
     ELSE <<SubSeq(code, 1, firstNl - 1)>>
          \o Split(SubSeq(code, firstNl + 1, Len(code)))

RECURSIVE Join(_, _)
\* Array.prototype.join
Join(ss, sep) ==
  IF ss = <<>> THEN <<>>
  ELSE IF Len(ss) = 1 THEN ss[1]
  ELSE ss[1] \o sep \o Join(Tail(ss), sep)

(***************************************************************************)
(* crc8 of the crc package: CRC-8, polynomial 0x07, initial value 0, over  *)
(* the UTF-8 bytes of the string.                                          *)
(***************************************************************************)
RECURSIVE Xor(_, _)
\* bitwise exclusive or of two naturals
Xor(a, b) ==
  IF a = 0 THEN b
  ELSE IF b = 0 THEN a
  ELSE ((a + b) % 2) + 2 * Xor(a \div 2, b \div 2)

RECURSIVE Crc8Shift(_, _)
\* n steps of the shift register: shift left, reduce by the polynomial
Crc8Shift(crc, n) ==
  IF n = 0 THEN crc
  ELSE Crc8Shift(IF crc >= 128 THEN Xor((crc * 2) % 256, 7)
                 ELSE (crc * 2) % 256, n - 1)

\* the package's lookup table
Crc8Table == [b \in 0..255 |-> Crc8Shift(b, 8)]

RECURSIVE Crc8From(_, _)
Crc8From(crc, s) ==
  IF s = <<>> THEN crc
  ELSE Crc8From(Crc8Table[Xor(crc, CharCode(Head(s)))], Tail(s))

crc8(text) == Crc8From(0, text)

(***************************************************************************)
(* The color table.                                                        *)
(***************************************************************************)
htmlColors ==
  << <<"#","d","7","8","7","9","7">>,
     <<"#","c","4","7","d","8","5">>,
     <<"#","b","2","7","3","7","3">>,
     <<"#","d","3","8","b","8","3">>,
     <<"#","b","f","8","1","7","2">>,
     <<"#","a","c","7","7","6","2">>,
     <<"#","c","a","9","1","7","0">>,
     <<"#","b","7","8","7","6","1">>,
     <<"#","a","3","7","c","5","3">>,
     <<"#","b","f","9","7","5","f">>,
     <<"#","a","b","8","d","5","3">>,
     <<"#","9","7","8","2","4","8">>,
     <<"#","a","f","9","d","5","5">>,
     <<"#","9","c","9","2","4","c">>,
     <<"#","8","9","8","7","4","4">>,
     <<"#","9","d","a","3","5","3">>,
     <<"#","8","a","9","7","4","e">>,
     <<"#","7","8","8","b","4","8">>,
     <<"#","8","8","a","8","5","c">>,
     <<"#","7","5","9","c","5","8">>,
     <<"#","6","3","8","f","5","4">>,
     <<"#","6","f","a","c","6","b">>,
     <<"#","5","d","9","f","6","7">>,
     <<"#","4","c","9","2","6","3">>,
     <<"#","5","2","a","f","7","d">>,
     <<"#","4","1","a","1","7","9">>,
     <<"#","3","1","9","3","7","3">>,
     <<"#","3","1","b","1","9","1">>,
     <<"#","2","1","a","2","8","a">>,
     <<"#","1","2","9","4","8","4">>,
     <<"#","0","9","b","1","a","4">>,
     <<"#","0","0","a","2","9","c">>,
     <<"#","0","3","9","3","9","3">>,
     <<"#","1","3","a","f","b","5">>,
     <<"#","1","e","9","f","a","b">>,
     <<"#","2","6","9","0","a","0">>,
     <<"#","3","c","a","b","c","3">>,
     <<"#","4","3","9","b","b","7">>,
     <<"#","4","6","8","c","a","a">>,
     <<"#","6","1","a","5","c","e">>,
     <<"#","6","3","9","5","c","0">>,
     <<"#","6","3","8","6","b","1">>,
     <<"#","8","2","9","e","d","4">>,
     <<"#","8","0","8","f","c","4">>,
     <<"#","7","c","8","0","b","3">>,
     <<"#","9","e","9","6","d","5">>,
     <<"#","9","8","8","7","c","3">>,
     <<"#","9","1","7","9","b","1">>,
     <<"#","b","5","8","f","d","1">>,
     <<"#","a","c","8","1","b","e">>,
     <<"#","a","1","7","4","a","b">>,
     <<"#","c","6","8","9","c","8">>,
     <<"#","b","a","7","c","b","4">>,
     <<"#","a","d","7","0","a","1">>,
     <<"#","d","1","8","5","b","b">>,
     <<"#","c","2","7","a","a","7">>,
     <<"#","b","3","6","e","9","3">>,
     <<"#","d","6","8","5","a","a">>,
     <<"#","c","6","7","a","9","6">>,
     <<"#","b","5","7","0","8","4">> >>

(***************************************************************************)
(* The pieces of the template literals of the renderer.                    *)
(***************************************************************************)
PreCodeOpen == <<"<", "p", "r", "e", ">", "<", "c", "o", "d", "e", ">">>
SpanOpen == <<"<", "s", "p", "a", "n", " ">>
TitleOpen == <<" ", "t", "i", "t", "l", "e", "=", "\"">>
TagClose == <<"\"", ">">>
SpanClose == <<"<", "/", "s", "p", "a", "n", ">">>
Br == <<"<", "b", "r", ">">>
PreCodeClose == <<"<", "/", "c", "o", "d", "e", ">", "<", "/", "p", "r", "e", ">">>
StyleOpen == <<"s", "t", "y", "l", "e", "=", "\"", "c", "o", "l", "o", "r", ":", " ">>
Quote == <<"\"">>
Comma == <<",">>
EntityNamePrefix == <<"e", "n", "t", "i", "t", "y", ".", "n", "a", "m", "e">>
VariablePrefix == <<"v", "a", "r", "i", "a", "b", "l", "e">>

(***************************************************************************)
(* The scopes the engine of the model assigns.  Each token gets one of the *)
(* lists of ScopeLists.                                                    *)
(***************************************************************************)
ScopeSource == <<"s", "o", "u", "r", "c", "e">>
ScopeVariableX == <<"v", "a", "r", "i", "a", "b", "l", "e", "X">>
ScopeEntityName == <<"e", "n", "t", "i", "t", "y", ".", "n", "a", "m", "e">>
ScopeEntityNam == <<"e", "n", "t", "i", "t", "y", ".", "n", "a", "m">>
ScopeXvariable == <<"x", "v", "a", "r", "i", "a", "b", "l", "e">>

ScopeLists ==
  { <<ScopeSource, ScopeVariableX>>,
    <<ScopeEntityName, ScopeSource>>,
    <<ScopeEntityNam, ScopeXvariable>> }

(***************************************************************************)
(* The grammar table (tm-grammars) and the lookup by flag.                 *)
(***************************************************************************)
Undefined == [undefined |-> TRUE]

\* three entries of the table; the last has no aliases field
grammars ==
  << [name |-> "typescript", hasAliases |-> TRUE, aliases |-> <<"ts">>,
      scopeName |-> "source.ts"],
     [name |-> "haskell", hasAliases |-> TRUE, aliases |-> <<"hs">>,
      scopeName |-> "source.haskell"],
     [name |-> "json", hasAliases |-> FALSE, aliases |-> <<>>,
      scopeName |-> "source.json"] >>

Flags == {"ts", "json", "not-a-real-language"}

\* the predicate of the find: flag === name || aliases?.includes(flag)
FlagMatches(flag, grammarInfo) ==
  \/ flag = grammarInfo.name
  \/ /\ grammarInfo.hasAliases
     /\ \E k \in 1..Len(grammarInfo.aliases) : grammarInfo.aliases[k] = flag

\* a lookup that falls back to the first grammar of the table
flagToGrammarInfoOrFirst(flag) ==
  IF \E k \in 1..Len(grammars) : FlagMatches(flag, grammars[k])
  THEN grammars[CHOOSE k \in 1..Len(grammars) :
                  /\ FlagMatches(flag, grammars[k])
                  /\ \A j \in 1..(k - 1) : ~FlagMatches(flag, grammars[j])]
  ELSE grammars[1]

\* Array.prototype.find: the first entry that matches, or undefined
flagToGrammarInfo(flag) ==
  IF \E k \in 1..Len(grammars) : FlagMatches(flag, grammars[k])
  THEN grammars[CHOOSE k \in 1..Len(grammars) :
                  /\ FlagMatches(flag, grammars[k])
                  /\ \A j \in 1..(k - 1) : ~FlagMatches(flag, grammars[j])]
  ELSE Undefined

(***************************************************************************)
(* The engine: grammar.tokenizeLine(codeLine, ruleStack).  Its answer is   *)
(* an input of the step that calls it.  The engine returns spans that      *)
(* cover the line from index 0 without gaps or overlaps; it tokenizes the  *)
(* line with a newline appended, so the last span may end one past the     *)
(* line, and for an empty line it may return one span, 0 to 1, or none.    *)
(* It may also fail.  The rule stack it returns is a fresh value, named    *)
(* here by the run and the line that produced it.                          *)
(***************************************************************************)
INITIAL == [run |-> 0, line |-> 0 - 1]

RECURSIVE SortedSeq(_)
\* the elements of a set of numbers in increasing order
SortedSeq(S) ==
  IF S = {} THEN <<>>
  ELSE LET m == CHOOSE x \in S : \A y \in S : x <= y
       IN <<m>> \o SortedSeq(S \ {m})

\* the spans cut at the points of cuts, the last one ending at last
Spans(n, cuts, last) ==
  LET pts == SortedSeq({0} \cup cuts \cup {n})
  IN [k \in 1..(Len(pts) - 1) |->
        [startIndex |-> pts[k],
         endIndex |-> IF k = Len(pts) - 1 THEN last ELSE pts[k + 1]]]

SpanLists(n) ==
  IF n = 0
  THEN {<<>>, <<[startIndex |-> 0, endIndex |-> 1]>>}
  ELSE {Spans(n, cuts, last) : cuts \in SUBSET (1..(n - 1)), last \in {n, n + 1}}

\* the token lists tokenizeLine may return for a line
TokenLists(codeLine) ==
  UNION { { [k \in 1..Len(sp) |->
               [startIndex |-> sp[k].startIndex,
                endIndex |-> sp[k].endIndex,
                scopes |-> sc[k]]] : sc \in [1..Len(sp) -> ScopeLists] }
          : sp \in SpanLists(Len(codeLine)) }

EngineError(r, lineNo) == [message |-> <<"engine failure", r, lineNo>>]

\* what a call of tokenizeLine in run r on line lineNo may do
TokenizeLineOutcomes(r, lineNo, codeLine) ==
  { [threw |-> FALSE, tokens |-> toks,
     ruleStack |-> [run |-> r, line |-> lineNo]] : toks \in TokenLists(codeLine) }
  \cup { [threw |-> TRUE, error |-> EngineError(r, lineNo)] }

(***************************************************************************)
(* styleAttributeForToken and the markup of one line.                      *)
(***************************************************************************)
\* the callback of findIndex
IsNameScope(scope) ==
  \/ StartsWith(scope, EntityNamePrefix)
  \/ StartsWith(scope, VariablePrefix)

\* token.scopes.findIndex(...) !== -1
HasNameScope(token) ==
  \E k \in 1..Len(token.scopes) : IsNameScope(token.scopes[k])

\* a classification that looks at the variable prefix alone
styleAttributeVariableOnly(token) ==
  IF \E k \in 1..Len(token.scopes) : StartsWith(token.scopes[k], VariablePrefix)
  THEN StyleOpen \o htmlColors[(crc8(token.text) % Len(htmlColors)) + 1] \o Quote
  ELSE <<>>

\* a color index reduced modulo one less than the length of the table
styleAttributeShortModulus(token) ==
  IF HasNameScope(token)
  THEN LET hash == crc8(token.text)
           colorIndex == hash % (Len(htmlColors) - 1)
           color == htmlColors[colorIndex + 1]
       IN StyleOpen \o color \o Quote
  ELSE <<>>

styleAttributeForToken(token) ==
  IF HasNameScope(token)
  THEN LET hash == crc8(token.text)
           colorIndex == hash % Len(htmlColors)
           color == htmlColors[colorIndex + 1]
       IN StyleOpen \o color \o Quote
  ELSE <<>>

\* what styleAttributeForToken writes to the console for a token
LoggedForToken(token) ==
  IF HasNameScope(token) THEN <<crc8(token.text)>> ELSE <<>>

\* the template literal of the inner loop
SpanForToken(token) ==
  SpanOpen \o styleAttributeForToken(token)
  \o TitleOpen \o Join(token.scopes, Comma) \o TagClose
  \o token.text \o SpanClose

\* an iteration that puts the <br> before the spans of the line
AppendLineBrFirst(soFar, line) ==
  soFar \o Br \o Concat([k \in 1..Len(line) |-> SpanForToken(line[k])])

\* one iteration of the outer loop: the spans of the line, then <br>
AppendLine(soFar, line) ==
  soFar \o Concat([k \in 1..Len(line) |-> SpanForToken(line[k])]) \o Br
(***************************************************************************)
(* The state.                                                              *)
(*   pc                the position of the caller: "idle", "loadGrammar"   *)
(*                     (highlight awaits registry.loadGrammar), "render"   *)
(*                     (the loop of tokenizedFileToHTML), "settled" (the   *)
(*                     promise of highlight has settled); for a consumer   *)
(*                     of tokenize other than the renderer, "consume" and  *)
(*                     "stopped"                                           *)
(*   run               the number of runs started so far                   *)
(*   code, flag        the arguments of the current run                    *)
(*   grammarInfo       highlight's local                                   *)
(*   loadGrammarCalls  calls of registry.loadGrammar in the current run    *)
(*   gen               the generator tokenize returned: its state and its  *)
(*                     locals codeLines, ruleStack, i, tokenizeLineResult  *)
(*   calls             the calls of grammar.tokenizeLine in the current    *)
(*                     run, in order: the pull that made the call, its     *)
(*                     arguments and the rule stack it returned            *)
(*   yielded           the token lists the generator has yielded           *)
(*   pulls             the calls of next() on the generator                *)
(*   html              tokenizedFileToHTML's local                         *)
(*   result            how the promise of highlight settled                *)
(*   logged            what the current run wrote with console.log         *)
(***************************************************************************)
VARIABLES pc, run, code, flag, grammarInfo, loadGrammarCalls, gen, calls,
          yielded, pulls, html, result, logged

vars == <<pc, run, code, flag, grammarInfo, loadGrammarCalls, gen, calls,
          yielded, pulls, html, result, logged>>

NoGenerator ==
  [state |-> "none", codeLines |-> <<>>, ruleStack |-> Undefined, i |-> 0,
   tokenizeLineResult |-> Undefined]

\* tokenize(code, grammar): a generator object, no statement of whose body
\* has run yet
NewGenerator == [NoGenerator EXCEPT !.state = "created"]

NoResult == [status |-> "none"]
Pending == [status |-> "pending"]
Fulfilled(value) == [status |-> "fulfilled", value |-> value]
Rejected(error) == [status |-> "rejected", error |-> error]

Init ==
  /\ pc = "idle"
  /\ run = 0
  /\ code = <<>>
  /\ flag = ""
  /\ grammarInfo = Undefined
  /\ loadGrammarCalls = 0
  /\ gen = NoGenerator
  /\ calls = <<>>
  /\ yielded = <<>>
  /\ pulls = 0
  /\ html = <<>>
  /\ result = NoResult
  /\ logged = <<>>

(***************************************************************************)
(* The generator tokenize.                                                 *)
(***************************************************************************)
CanResume(g) == g.state \in {"created", "suspended"}

\* a resumption that keeps the rule stack it started with
ResumeKeepingRuleStack(g, c) ==
  IF g.state = "created"
  THEN [g EXCEPT !.codeLines = Split(c), !.ruleStack = INITIAL, !.i = 0]
  ELSE [g EXCEPT !.i = g.i + 1]

\* a resumption that steps over a line
ResumeSkippingLine(g, c) ==
  IF g.state = "created"
  THEN [g EXCEPT !.codeLines = Split(c), !.ruleStack = INITIAL, !.i = 0]
  ELSE [g EXCEPT !.ruleStack = g.tokenizeLineResult.ruleStack, !.i = g.i + 2]

\* next() up to the test of the loop: from the start, the split and the
\* initial rule stack; from the yield, the assignment of the rule stack
\* and i++
Resume(g, c) ==
  IF g.state = "created"
  THEN [g EXCEPT !.codeLines = Split(c), !.ruleStack = INITIAL, !.i = 0]
  ELSE [g EXCEPT !.ruleStack = g.tokenizeLineResult.ruleStack, !.i = g.i + 1]

\* the loop test holds after the resumption: a line is tokenized
AtLine(g, c) ==
  /\ CanResume(g)
  /\ Resume(g, c).i < Len(Resume(g, c).codeLines)

\* the loop test fails after the resumption: the generator returns
AtEnd(g, c) ==
  /\ CanResume(g)
  /\ ~(Resume(g, c).i < Len(Resume(g, c).codeLines))

\* the inner loop of tokenize: one Token per token of the engine
CodeLineTokens(codeLine, tokens) ==
  [k \in 1..Len(tokens) |->
     [text |-> Substring(codeLine, tokens[k].startIndex, tokens[k].endIndex),
      scopes |-> tokens[k].scopes]]

\* next() on a generator that has a line left: the call of tokenizeLine,
\* then the yield of the line's tokens, or the engine's failure
TokenizeLineStep(eng) ==
  LET h == Resume(gen, code)
      codeLine == h.codeLines[h.i + 1]
  IN /\ pulls' = pulls + 1
     /\ calls' = Append(calls,
                       [run |-> run, pull |-> pulls + 1, line |-> h.i,
                        text |-> codeLine, ruleStack |-> h.ruleStack,
                        returned |-> IF eng.threw THEN Undefined
                                     ELSE eng.ruleStack])
     /\ IF eng.threw
        THEN /\ gen' = [h EXCEPT !.state = "threw"]
             /\ yielded' = yielded
        ELSE /\ gen' = [h EXCEPT !.state = "suspended",
                                 !.tokenizeLineResult =
                                    [ruleStack |-> eng.ruleStack]]
             /\ yielded' = Append(yielded, CodeLineTokens(codeLine, eng.tokens))

\* next() on a generator that has no line left
TokenizeEndStep ==
  /\ pulls' = pulls + 1
  /\ gen' = [Resume(gen, code) EXCEPT !.state = "done"]
  /\ UNCHANGED <<calls, yielded>>

\* every outcome of the engine on the line the generator is at
OutcomesAtLine ==
  IF AtLine(gen, code)
  THEN LET h == Resume(gen, code)
       IN TokenizeLineOutcomes(run, h.i, h.codeLines[h.i + 1])
  ELSE {}

(***************************************************************************)
(* highlight and tokenizedFileToHTML.                                      *)
(***************************************************************************)
FlagError(f) == [message |-> <<"Failed to find grammar for flag ", f>>]
ScopeError(s) == [message |-> <<"Failed to load grammar for scope name ", s>>]
LoadError == [message |-> <<"loadGrammar failure">>]

\* a renderer that answers an engine failure with the markup built so far
SettleWithMarkup(h, error) == Fulfilled(h \o PreCodeClose)

\* an exception of the generator leaves the for-of loop,
\* tokenizedFileToHTML and highlight: the promise is rejected with it
SettleOnThrow(h, error) == Rejected(error)

\* highlight(code, flag) up to its await
Highlight(c, f) ==
  /\ pc = "idle"
  /\ run < MaxRuns
  /\ run' = run + 1
  /\ code' = c
  /\ flag' = f
  /\ grammarInfo' = flagToGrammarInfo(f)
  /\ loadGrammarCalls' = 0
  /\ gen' = NoGenerator
  /\ calls' = <<>>
  /\ yielded' = <<>>
  /\ pulls' = 0
  /\ html' = <<>>
  /\ logged' = <<>>
  /\ IF grammarInfo' = Undefined
     THEN /\ result' = Rejected(FlagError(f))
          /\ pc' = "settled"
     ELSE /\ result' = Pending
          /\ pc' = "loadGrammar"

\* registry.loadGrammar settles; with a grammar, tokenize is called and
\* tokenizedFileToHTML starts
LoadGrammar(outcome) ==
  /\ pc = "loadGrammar"
  /\ loadGrammarCalls' = loadGrammarCalls + 1
  /\ IF outcome = "grammar"
     THEN /\ gen' = NewGenerator
          /\ html' = PreCodeOpen
          /\ pc' = "render"
          /\ UNCHANGED result
     ELSE /\ result' = Rejected(IF outcome = "null"
                                THEN ScopeError(grammarInfo.scopeName)
                                ELSE LoadError)
          /\ pc' = "settled"
          /\ UNCHANGED <<gen, html>>
  /\ UNCHANGED <<run, code, flag, grammarInfo, calls, yielded, pulls, logged>>

\* one iteration of the outer loop of tokenizedFileToHTML
RenderLine(eng) ==
  /\ pc = "render"
  /\ AtLine(gen, code)
  /\ TokenizeLineStep(eng)
  /\ IF eng.threw
     THEN /\ result' = SettleOnThrow(html, eng.error)
          /\ pc' = "settled"
          /\ UNCHANGED <<html, logged>>
     ELSE LET line == yielded'[Len(yielded')]
          IN /\ html' = AppendLine(html, line)
             /\ logged' = logged
                  \o Concat([k \in 1..Len(line) |-> LoggedForToken(line[k])])
             /\ UNCHANGED <<pc, result>>
  /\ UNCHANGED <<run, code, flag, grammarInfo, loadGrammarCalls>>

\* the generator is exhausted: the closing tags, and highlight returns
RenderEnd ==
  /\ pc = "render"
  /\ AtEnd(gen, code)
  /\ TokenizeEndStep
  /\ html' = html \o PreCodeClose
  /\ result' = Fulfilled(html')
  /\ pc' = "settled"
  /\ UNCHANGED <<run, code, flag, grammarInfo, loadGrammarCalls, logged>>

\* the caller has the outcome of highlight: the frames of the run and the
\* generator are gone
Return ==
  /\ pc = "settled"
  /\ pc' = "idle"
  /\ code' = <<>>
  /\ flag' = ""
  /\ grammarInfo' = Undefined
  /\ loadGrammarCalls' = 0
  /\ gen' = NoGenerator
  /\ calls' = <<>>
  /\ yielded' = <<>>
  /\ pulls' = 0
  /\ html' = <<>>
  /\ result' = NoResult
  /\ logged' = <<>>
  /\ UNCHANGED run

Next ==
  \/ \E c \in Codes, f \in Flags : Highlight(c, f)
  \/ \E outcome \in {"grammar", "null", "throws"} : LoadGrammar(outcome)
  \/ \E eng \in OutcomesAtLine : RenderLine(eng)
  \/ RenderEnd
  \/ Return

Spec == Init /\ [][Next]_vars

(***************************************************************************)
(* tokenize under a consumer that may stop pulling.                        *)
(***************************************************************************)
\* tokenize(code, grammar) called by a consumer of its own
Tokenize(c) ==
  /\ pc = "idle"
  /\ run < MaxRuns
  /\ run' = run + 1
  /\ code' = c
  /\ gen' = NewGenerator
  /\ calls' = <<>>
  /\ yielded' = <<>>
  /\ pulls' = 0
  /\ pc' = "consume"
  /\ UNCHANGED <<flag, grammarInfo, loadGrammarCalls, html, result, logged>>

\* the consumer pulls an element and a line is left
ConsumerNext(eng) ==
  /\ pc = "consume"
  /\ AtLine(gen, code)
  /\ TokenizeLineStep(eng)
  /\ pc' = IF eng.threw THEN "stopped" ELSE pc
  /\ UNCHANGED <<run, code, flag, grammarInfo, loadGrammarCalls, html, result,
                 logged>>

\* the consumer pulls an element and none is left
ConsumerNextEnd ==
  /\ pc = "consume"
  /\ AtEnd(gen, code)
  /\ TokenizeEndStep
  /\ pc' = "stopped"
  /\ UNCHANGED <<run, code, flag, grammarInfo, loadGrammarCalls, html, result,
                 logged>>

\* the consumer stops: return() on the generator
ConsumerReturn ==
  /\ pc = "consume"
  /\ CanResume(gen)
  /\ gen' = [gen EXCEPT !.state = "returned"]
  /\ pc' = "stopped"
  /\ UNCHANGED <<run, code, flag, grammarInfo, loadGrammarCalls, calls,
                 yielded, pulls, html, result, logged>>

\* the consumer drops the generator
Release ==
  /\ pc = "stopped"
  /\ pc' = "idle"
  /\ code' = <<>>
  /\ gen' = NoGenerator
  /\ calls' = <<>>
  /\ yielded' = <<>>
  /\ pulls' = 0
  /\ UNCHANGED <<run, flag, grammarInfo, loadGrammarCalls, html, result, logged>>

NextTokenize ==
  \/ \E c \in Codes : Tokenize(c)
  \/ \E eng \in OutcomesAtLine : ConsumerNext(eng)
  \/ ConsumerNextEnd
  \/ ConsumerReturn
  \/ Release

SpecTokenize == Init /\ [][NextTokenize]_vars

(***************************************************************************)
(* What the claims are stated with.                                        *)
(***************************************************************************)
\* the positions of the newlines of a text, in increasing order
NewlinePositions(text) == SortedSeq({p \in 1..Len(text) : text[p] = "\n"})

\* the k-th newline-delimited segment of a text, k from 1
Segment(text, k) ==
  LET nl == NewlinePositions(text)
      from == IF k = 1 THEN 1 ELSE nl[k - 1] + 1
      to == IF k <= Len(nl) THEN nl[k] - 1 ELSE Len(text)
  IN SubSeq(text, from, to)

\* the number of places where pat occurs in s
Occurrences(s, pat) ==
  Cardinality({p \in 1..(Len(s) - Len(pat) + 1) :
                 SubSeq(s, p, p + Len(pat) - 1) = pat})

\* the texts of the tokens of a line, concatenated in order
TextOf(line) == Concat([j \in 1..Len(line) |-> line[j].text])

\* the tokens of all yielded lines, in line order and token order
AllTokens == Concat(yielded)

\* the flags the grammar table knows: every name and every alias
KnownFlags ==
  {grammars[k].name : k \in 1..Len(grammars)}
  \cup UNION {{grammars[k].aliases[j] : j \in 1..Len(grammars[k].aliases)} :
                k \in {n \in 1..Len(grammars) : grammars[n].hasAliases}}

\* the scope lists of the model with a scope that starts with entity.name
\* or with variable
NameLikeScopeLists ==
  { <<ScopeSource, ScopeVariableX>>, <<ScopeEntityName, ScopeSource>> }

IsNameLike(token) == token.scopes \in NameLikeScopeLists

\* the length of a style attribute: style="color: #rrggbb"
StyleLength == Len(StyleOpen) + 7 + Len(Quote)

RECURSIVE TitleOf(_, _)
\* the scopes from the k-th on, each but the last followed by a comma
TitleOf(scopes, k) ==
  IF k > Len(scopes) THEN <<>>
  ELSE scopes[k] \o (IF k < Len(scopes) THEN Comma ELSE <<>>)
       \o TitleOf(scopes, k + 1)

\* the span the renderer is to write for a token, around a given style
SpanWith(token, style) ==
  SpanOpen \o style \o TitleOpen \o TitleOf(token.scopes, 1) \o TagClose
  \o token.text \o SpanClose

RECURSIVE MarkupOf(_, _)
\* the markup of the lines from the k-th on: per line its spans, then <br>
MarkupOf(lines, k) ==
  IF k > Len(lines) THEN <<>>
  ELSE Concat([j \in 1..Len(lines[k]) |->
                 SpanWith(lines[k][j], styleAttributeForToken(lines[k][j]))])
       \o Br \o MarkupOf(lines, k + 1)

\* the length of the span of a token
SpanLength(token) ==
  Len(SpanOpen) + (IF IsNameLike(token) THEN StyleLength ELSE 0)
  + Len(TitleOpen) + Len(TitleOf(token.scopes, 1)) + Len(TagClose)
  + Len(token.text) + Len(SpanClose)

RECURSIVE LinesLength(_, _)
\* the length of the markup of the first k lines
LinesLength(lines, k) ==
  IF k = 0 THEN 0
  ELSE LinesLength(lines, k - 1) + Len(Br)
       + Len(Concat([j \in 1..Len(lines[k]) |->
                       [n \in 1..SpanLength(lines[k][j]) |-> "."]]))

\* where the span of token j of line k starts in html (0-based)
SpanStart(k, j) ==
  Len(PreCodeOpen) + LinesLength(yielded, k - 1)
  + Len(Concat([n \in 1..(j - 1) |->
                  [m \in 1..SpanLength(yielded[k][n]) |-> "."]]))

\* the text between the span's opening and its title
StyleInHtml(k, j) ==
  LET from == SpanStart(k, j) + Len(SpanOpen)
  IN SubSeq(html, from + 1,
            from + (IF IsNameLike(yielded[k][j]) THEN StyleLength ELSE 0))

\* highlight has returned markup
Returned == pc = "settled" /\ result.status = "fulfilled"

(***************************************************************************)
(* The claims.                                                             *)
(***************************************************************************)

\* C1: a tokenize run consumed to exhaustion has yielded one token list per
\* newline-delimited segment of the input: the number of "\n" characters
\* plus one; "\r" separates nothing.
C1_LineCount ==
  gen.state = "done" =>
    Len(yielded) = Cardinality({p \in 1..Len(code) : code[p] = "\n"}) + 1

\* C1 witness: "a\nb\n" consumed to exhaustion has yielded three lists.
C1_Witness ==
  /\ gen.state = "done"
  /\ code = <<"a", "\n", "b", "\n">>
  /\ Len(yielded) = 3

\* C2: the texts of the tokens of every yielded line, concatenated in the
\* order of emission, are exactly that line of the input, and every token
\* text is a substring of that line.
C2_Coverage ==
  \A k \in 1..Len(yielded) :
    /\ TextOf(yielded[k]) = Segment(code, k)
    /\ \A j \in 1..Len(yielded[k]) :
         \E p \in 0..Len(Segment(code, k)) :
           SubSeq(Segment(code, k), p + 1, p + Len(yielded[k][j].text))
             = yielded[k][j].text

\* C2 witness: the second line of a text was split into at least two
\* tokens, none of them empty.
C2_Witness ==
  /\ Len(yielded) >= 2
  /\ Len(yielded[2]) >= 2
  /\ \A j \in 1..Len(yielded[2]) : yielded[2][j].text # <<>>

\* C3: a highlight call with a flag that is no grammar's name or alias is
\* rejected with an error that names the flag; registry.loadGrammar and
\* tokenizeLine are not called in that request, and no generator is made.
C3_UnknownFlag ==
  (flag \in Flags /\ flag \notin KnownFlags) =>
    /\ result.status = "rejected"
    /\ \E k \in 1..Len(result.error.message) : result.error.message[k] = flag
    /\ loadGrammarCalls = 0
    /\ calls = <<>>
    /\ pulls = 0
    /\ gen.state = "none"

\* C3 witness: highlight was called with "not-a-real-language" and has
\* settled.
C3_Witness ==
  /\ pc = "settled"
  /\ flag = "not-a-real-language"
  /\ result.status = "rejected"

\* C4 as stated: for the empty input the one yielded list is empty and the
\* fragment is <pre><code><br></code></pre>.
C4_Original ==
  (Returned /\ code = <<>>) =>
    /\ Len(yielded) = 1
    /\ yielded[1] = <<>>
    /\ result.value = PreCodeOpen \o Br \o PreCodeClose

\* C4 amended: for the empty input exactly one list is yielded; it holds
\* one token per token the engine returned for the empty line, each with
\* empty text, and the fragment is <pre><code>, one span with empty text
\* per such token, <br></code></pre>: it is <pre><code><br></code></pre>
\* when the engine returned no token.
C4_EmptyInput ==
  (Returned /\ code = <<>>) =>
    /\ Len(yielded) = 1
    /\ \A j \in 1..Len(yielded[1]) : yielded[1][j].text = <<>>
    /\ result.value =
         PreCodeOpen
         \o Concat([j \in 1..Len(yielded[1]) |->
                      SpanOpen \o styleAttributeForToken(yielded[1][j])
                      \o TitleOpen \o TitleOf(yielded[1][j].scopes, 1)
                      \o TagClose \o SpanClose])
         \o Br \o PreCodeClose
    /\ yielded[1] = <<>> =>
         result.value = PreCodeOpen \o Br \o PreCodeClose

\* C4 witness: the empty input was rendered and the engine had returned a
\* token for its one line.
C4_Witness ==
  /\ Returned
  /\ code = <<>>
  /\ Len(yielded) = 1
  /\ Len(yielded[1]) = 1

C6_ColorOfText ==
  pc \in {"render", "settled"} /\ loadGrammarCalls > 0 /\ gen.state # "none" =>
    /\ Len(htmlColors) = 60
    /\ \A k \in 1..Len(yielded) : \A j \in 1..Len(yielded[k]) :
         IsNameLike(yielded[k][j]) =>
           /\ crc8(yielded[k][j].text) % 60 \in 0..59
           /\ StyleInHtml(k, j) =
                StyleOpen \o htmlColors[(crc8(yielded[k][j].text) % 60) + 1]
                \o Quote
           /\ \A k2 \in 1..Len(yielded) : \A j2 \in 1..Len(yielded[k2]) :
                (IsNameLike(yielded[k2][j2])
                 /\ yielded[k2][j2].text = yielded[k][j].text)
                  => StyleInHtml(k2, j2) = StyleInHtml(k, j)

\* C6 witness: markup was returned for two name-like tokens with the same
\* text and different scopes, on different lines.
C6_Witness ==
  /\ Returned
  /\ Len(yielded) >= 2
  /\ \E j \in 1..Len(yielded[1]) : \E j2 \in 1..Len(yielded[2]) :
       /\ yielded[1][j].text = <<"a">>
       /\ yielded[2][j2].text = <<"a">>
       /\ yielded[1][j].scopes = <<ScopeSource, ScopeVariableX>>
       /\ yielded[2][j2].scopes = <<ScopeEntityName, ScopeSource>>

\* C7: when tokenizeLine fails on line k, highlight is rejected with that
\* error; lines 0..k were each passed to tokenizeLine once and no other
\* line was, and the outcome carries no markup.
C7_EngineFailure ==
  (pc = "settled" /\ gen.state = "threw") =>
    /\ result = Rejected(EngineError(run, Len(yielded)))
    /\ DOMAIN result = {"status", "error"}
    /\ Len(calls) = Len(yielded) + 1
    /\ \A k \in 1..Len(calls) : calls[k].line = k - 1

\* C7 witness: the engine failed on the second line, after the markup of
\* the first line had been built.
C7_Witness ==
  /\ pc = "settled"
  /\ gen.state = "threw"
  /\ Len(yielded) = 1
  /\ Len(yielded[1]) >= 1
  /\ Len(html) > Len(PreCodeOpen) + Len(Br)
  /\ result.status = "rejected"

\* C8: the first call of tokenizeLine of a run gets INITIAL, every later
\* call gets the rule stack the call before it returned, and every rule
\* stack passed is INITIAL or was produced in the same run.
C8_RuleStack ==
  \A k \in 1..Len(calls) :
    /\ calls[k].run = run
    /\ calls[k].ruleStack =
         IF k = 1 THEN INITIAL ELSE calls[k - 1].returned
    /\ calls[k].ruleStack = INITIAL \/ calls[k].ruleStack.run = run
    /\ calls[k].ruleStack = INITIAL <=> calls[k].line = 0

\* C8 witness: in a second run the second line was tokenized.
C8_Witness ==
  /\ run = 2
  /\ Len(calls) >= 2
  /\ calls[1].ruleStack = INITIAL
  /\ calls[2].ruleStack = [run |-> 2, line |-> 0]

\* C9: tokenizeLine is called for line i in the consumer's pull i + 1 and
\* in no other; a generator not yet pulled has made no call; a consumer
\* that stopped after k elements has caused exactly k calls, for the lines
\* 0..k-1.
C9_Lazy ==
  /\ Len(calls) <= pulls
  /\ \A k \in 1..Len(calls) : calls[k].line = k - 1 /\ calls[k].pull = k
  /\ Len(calls) = Len(yielded) + (IF gen.state = "threw" THEN 1 ELSE 0)
  /\ gen.state = "created" => calls = <<>>
  /\ gen.state = "returned" => Len(calls) = pulls /\ pulls = Len(yielded)
  /\ gen.state = "done" => Len(calls) = pulls - 1

\* C9 witness: the consumer stopped after one element of a text of three
\* lines.
C9_Witness ==
  /\ pc = "stopped"
  /\ gen.state = "returned"
  /\ Len(yielded) = 1
  /\ Len(calls) = 1
  /\ Len(NewlinePositions(code)) = 2

\* C10 as stated: the fragment is <pre><code>, per line its spans and a
\* <br>, </code></pre>, and it contains one span per token and one <br>
\* per line.
C10_Original ==
  Returned =>
    /\ result.value = PreCodeOpen \o MarkupOf(yielded, 1) \o PreCodeClose
    /\ Occurrences(result.value, SpanOpen) = Len(AllTokens)
    /\ Occurrences(result.value, Br) = Len(yielded)

\* C10 amended: while rendering, html is <pre><code> and, per line
\* consumed, one span per token in order (text verbatim, title the scopes
\* joined by commas in order) and then one <br>; the fragment returned is
\* that for all lines of the input, then </code></pre>.  It contains one
\* "<span " per token and one "<br>" per line when no token text contains
\* "<span " or "<br>".
C10_Markup ==
  /\ pc = "render" => html = PreCodeOpen \o MarkupOf(yielded, 1)
  /\ Returned =>
       /\ Len(yielded) = Len(NewlinePositions(code)) + 1
       /\ result.value = PreCodeOpen \o MarkupOf(yielded, 1) \o PreCodeClose
       /\ (\A t \in 1..Len(AllTokens) :
             /\ Occurrences(AllTokens[t].text, SpanOpen) = 0
             /\ Occurrences(AllTokens[t].text, Br) = 0)
            => /\ Occurrences(result.value, SpanOpen) = Len(AllTokens)
               /\ Occurrences(result.value, Br) = Len(yielded)

\* C10 witness: a fragment was returned for two lines, the second with more
\* than one token.
C10_Witness ==
  /\ Returned
  /\ Len(yielded) = 2
  /\ Len(yielded[2]) >= 2
====
